---- MODULE Spec2Model ----
(***************************************************************************)
(* Lowering of trait declarations and of the function signatures inside    *)
(* them (sway-core/src/parse_tree/declaration/trait.rs).                   *)
(*                                                                         *)
(* A syntax node (pest Pair<Rule>) is a record                             *)
(*     [rule, span, text, res, kids]                                       *)
(* rule: the grammar tag; span: the node's source range, written as the    *)
(* path of child indices from the declaration node (distinct nodes have    *)
(* distinct ranges); text: the node's source text; kids: into_inner().     *)
(* res is the outcome the external lowerer called on this node reports for *)
(* it: whether it yields a value and how many warnings and errors it       *)
(* carries.  A CompileResult<T> is [value, warnings, errors] with value a  *)
(* sequence of length 0 (None) or 1 (Some).                                *)
(***************************************************************************)
EXTENDS Naturals, Sequences, FiniteSets

VARIABLES pair, config, pc, trait_parts, visibility, name, warnings, errors,
          type_params_pair, where_clause_pair, methods, interface, slot,
          body_iter, ret

vars == <<pair, config, pc, trait_parts, visibility, name, warnings, errors,
          type_params_pair, where_clause_pair, methods, interface, slot,
          body_iter, ret>>

(***************************************************************************)
(* Bounds of the explored inputs.                                          *)
(***************************************************************************)
\* most diagnostics of one kind that one external lowerer reports in a call
MaxDiag == 2
\* most items (fn_signature / fn_decl children) of a trait body
MaxItems == 2
\* in the inputs that vary the body, most sources of diagnostics in one
\* body: a name that is not snake case, a lowerer that reports or fails
MaxNoisy == 2
\* most items of the body in the inputs that vary the head of the declaration
MaxHeadItems == 1

\* for _ in 0..2
LookaheadSlots == 2

None == <<>>
Some(x) == <<x>>

(***************************************************************************)
(* The diagnostic accumulator protocol of crate::error.                    *)
(***************************************************************************)
ok(value, ws, es) == [value |-> Some(value), warnings |-> ws, errors |-> es]

err(ws, es) == [value |-> None, warnings |-> ws, errors |-> es]

\* check!(res, recovery, warnings, errors): append the result's warnings and
\* errors to the caller's accumulators; the caller takes the value, or its
\* recovery expression when there is none.
check(res, ws, es) ==
    [value |-> res.value, warnings |-> ws \o res.warnings, errors |-> es \o res.errors]

\* assert_or_warn!(cond, warnings, span, warning)
assert_or_warn(cond, ws, span, warning) ==
    IF cond THEN ws ELSE Append(ws, [warning_content |-> warning, span |-> span])

\* CompileResult::unwrap_or_else(warnings, errors, or_else)
unwrap_or_else(res, ws, es, or_else) ==
    [value |-> IF res.value = None THEN or_else ELSE res.value[1],
     warnings |-> ws \o res.warnings, errors |-> es \o res.errors]

(***************************************************************************)
(* External collaborators.                                                 *)
(***************************************************************************)
\* Span { span: pair.as_span(), path }
Span(range, path) == [span |-> range, path |-> path]

\* config.map(|c| c.path())
PathOf(cfg) == cfg

is_upper_camel_case(text) == text = "Foo"

is_snake_case(text) == text = "foo_bar"

\* the diagnostics an external lowerer named by reports for a node
Reported(by, kind, node, cfg, n) ==
    [k \in 1..n |-> [warning_content |-> [kind |-> kind, by |-> by, k |-> k],
                     span |-> Span(node.span, PathOf(cfg))]]

External(by, node, cfg, value) ==
    [value |-> IF node.res.ok THEN Some(value) ELSE None,
     warnings |-> Reported(by, "warning", node, cfg, node.res.nw),
     errors |-> Reported(by, "error", node, cfg, node.res.ne)]

Ident_parse_from_pair(node, cfg) ==
    External("Ident", node, cfg, [text |-> node.text, span |-> Span(node.span, PathOf(cfg))])

Visibility_parse_from_pair(node) == IF node.text = "pub" THEN "Public" ELSE "Private"

FunctionParameter_list_from_pairs(node, cfg) ==
    External("FunctionParameter", node, cfg, <<[params_of |-> node.span]>>)

TypeInfo_parse_from_pair(node, cfg) ==
    External("TypeInfo", node, cfg, [type_at |-> node.span])

FunctionDeclaration_parse_from_pair(node, cfg) ==
    External("FunctionDeclaration", node, cfg, [fn_decl_at |-> node.span])

\* TypeParameter::parse_from_type_params_and_where_clause: with neither node
\* the list is empty and nothing is reported; otherwise the outcome is the
\* one carried by the type_params node, or by the trait_bounds node when
\* there is no type_params node.
TypeParameter_parse_from_type_params_and_where_clause(tp, wc, cfg) ==
    IF tp = None /\ wc = None THEN ok(<<>>, <<>>, <<>>)
    ELSE LET node == IF tp # None THEN tp[1] ELSE wc[1]
         IN External("TypeParameter", node, cfg, <<[type_param_at |-> node.span]>>)

(***************************************************************************)
(* TraitFn::parse_from_pair                                                *)
(***************************************************************************)
TypeInfo_Tuple_empty == [tuple |-> <<>>]

TypeInfo_ErrorRecovery == [error_recovery |-> TRUE]

\* lines 134-151: the name and its snake_case check
TraitFn_name(signature, cfg) ==
    LET name_node == signature[2]
        name_span == Span(name_node.span, PathOf(cfg))
        c == check(Ident_parse_from_pair(name_node, cfg), <<>>, <<>>)
    IN  IF c.value = None THEN c
        ELSE [c EXCEPT !.warnings =
                  assert_or_warn(is_snake_case(c.value[1].text), c.warnings, name_span,
                                 [kind |-> "NonSnakeCaseFunctionName", name |-> c.value[1]])]

\* lines 152-158: the parameter list, empty when it does not lower
TraitFn_parameters(signature, cfg, ws, es) ==
    LET c == check(FunctionParameter_list_from_pairs(signature[3], cfg), ws, es)
    IN  [c EXCEPT !.value = IF c.value = None THEN <<>> ELSE c.value[1]]

\* TraitFn_return_type attributing every return type to the whole signature
TraitFn_return_type_WholeSpan(signature, cfg, whole_fn_sig_span, ws, es) ==
    LET return_type_signal == IF Len(signature) >= 4 THEN Some(signature[4]) ELSE None
    IN  IF return_type_signal # None
        THEN LET type_pair == signature[5]
                 c == check(TypeInfo_parse_from_pair(type_pair, cfg), ws, es)
             IN [value |-> <<IF c.value = None THEN TypeInfo_ErrorRecovery ELSE c.value[1],
                             whole_fn_sig_span>>,
                 warnings |-> c.warnings, errors |-> c.errors]
        ELSE [value |-> <<TypeInfo_Tuple_empty, whole_fn_sig_span>>,
              warnings |-> ws, errors |-> es]

\* lines 159-178: the return type and the range it is attributed to
TraitFn_return_type(signature, cfg, whole_fn_sig_span, ws, es) ==
    LET return_type_signal == IF Len(signature) >= 4 THEN Some(signature[4]) ELSE None
    IN  IF return_type_signal # None
        THEN LET type_pair == signature[5]
                 span == Span(type_pair.span, PathOf(cfg))
                 c == check(TypeInfo_parse_from_pair(type_pair, cfg), ws, es)
             IN [value |-> <<IF c.value = None THEN TypeInfo_ErrorRecovery ELSE c.value[1],
                             span>>,
                 warnings |-> c.warnings, errors |-> c.errors]
        ELSE [value |-> <<TypeInfo_Tuple_empty, whole_fn_sig_span>>,
              warnings |-> ws, errors |-> es]

\* TraitFn::parse_from_pair giving up on a parameter list that does not lower
TraitFn_parse_from_pair_Strict(p, cfg) ==
    LET signature == p.kids
        whole_fn_sig_span == Span(p.span, PathOf(cfg))
        n == TraitFn_name(signature, cfg)
    IN  IF n.value = None THEN err(n.warnings, n.errors)
        ELSE
        LET ps == TraitFn_parameters(signature, cfg, n.warnings, n.errors)
            rt == TraitFn_return_type(signature, cfg, whole_fn_sig_span,
                                      ps.warnings, ps.errors)
        IN  IF FunctionParameter_list_from_pairs(signature[3], cfg).value = None
            THEN err(ps.warnings, ps.errors)
            ELSE ok([name |-> n.value[1], parameters |-> ps.value,
                     return_type |-> rt.value[1], return_type_span |-> rt.value[2]],
                    rt.warnings, rt.errors)

\* lines 122-190
TraitFn_parse_from_pair(p, cfg) ==
    LET signature == p.kids
        whole_fn_sig_span == Span(p.span, PathOf(cfg))
        n == TraitFn_name(signature, cfg)
    IN  IF n.value = None THEN err(n.warnings, n.errors)
        ELSE
        LET ps == TraitFn_parameters(signature, cfg, n.warnings, n.errors)
            rt == TraitFn_return_type(signature, cfg, whole_fn_sig_span,
                                      ps.warnings, ps.errors)
        IN  ok([name |-> n.value[1], parameters |-> ps.value,
                return_type |-> rt.value[1], return_type_span |-> rt.value[2]],
               rt.warnings, rt.errors)

(***************************************************************************)
(* Inputs                                                                  *)
(***************************************************************************)
Clean == [ok |-> TRUE, nw |-> 0, ne |-> 0]

\* outcomes of an external lowerer: a value or none, with up to MaxDiag
\* warnings and errors; a result without a value carries at least one error
Outcomes ==
    {[ok |-> TRUE, nw |-> w, ne |-> e] : w \in 0..MaxDiag, e \in 0..MaxDiag}
    \cup {[ok |-> FALSE, nw |-> w, ne |-> e] : w \in 0..MaxDiag, e \in 1..MaxDiag}

\* the same, reporting either nothing or MaxDiag diagnostics of a kind
EdgeOutcomes == {o \in Outcomes : o.nw \in {0, MaxDiag} /\ o.ne \in {0, MaxDiag}}

Node(rule, text, res, kids) ==
    [rule |-> rule, span |-> <<>>, text |-> text, res |-> res, kids |-> kids]

Leaf(rule, text, res) == Node(rule, text, res, <<>>)

RECURSIVE Place(_, _)
\* give every node its source range
Place(node, range) ==
    [node EXCEPT !.span = range,
                 !.kids = [i \in 1..Len(node.kids) |-> Place(node.kids[i], Append(range, i))]]

Texts == {"Foo", "foo_bar"}

Configs == {None, Some("main.sw")}

ReturnTypes(outs) ==
    {<<>>} \cup {<<Leaf("fn_returns", "->", Clean), Leaf("type_name", "u64", o)>> : o \in outs}

Signature(text, o_name, o_params, rtype) ==
    Node("fn_signature", "", Clean,
         <<Leaf("fn_decl_name", "fn", Clean), Leaf("ident", text, o_name),
           Leaf("fn_decl_params", "()", o_params)>> \o rtype)

Signatures(outs) ==
    {Signature(t, o1, o2, r) : t \in Texts, o1 \in outs, o2 \in outs, r \in ReturnTypes(outs)}

\* the same, reporting nothing or failing or both
BodyOutcomes ==
    {Clean, [ok |-> TRUE, nw |-> MaxDiag, ne |-> MaxDiag],
            [ok |-> FALSE, nw |-> MaxDiag, ne |-> MaxDiag]}

\* number of sources of diagnostics in a body item
Noisy(item) ==
    IF item.rule = "fn_signature"
    THEN Cardinality({i \in 1..Len(item.kids) : item.kids[i].res # Clean})
         + (IF is_snake_case(item.kids[2].text) THEN 0 ELSE 1)
    ELSE IF item.res # Clean THEN 1 ELSE 0

FnDecls(outs) == {Leaf("fn_decl", "fn f() {}", o) : o \in outs}

\* a body has fn_decl and fn_signature children only: the grammar gives it
\* no other child (the last arm of the match is unreachable!)
BodyItems == FnDecls(BodyOutcomes) \cup Signatures(BodyOutcomes)

RECURSIVE NoisyBodies(_, _)
\* the item sequences of at most n items and at most budget sources of
\* diagnostics
NoisyBodies(n, budget) ==
    IF n = 0 THEN {<<>>}
    ELSE {<<>>} \cup UNION {{<<x>> \o rest : rest \in NoisyBodies(n - 1, budget - Noisy(x))} :
                                x \in {y \in BodyItems : Noisy(y) <= budget}}

HeadItems ==
    {Leaf("fn_decl", "fn f() {}", [ok |-> FALSE, nw |-> 0, ne |-> MaxDiag]),
     Signature("foo_bar", Clean, Clean, <<>>)}

SeqsUpTo(S, n) == UNION {[1..k -> S] : k \in 0..n}

Bodies(items, n) == {<<>>} \cup {<<Node("trait_body", "", Clean, b)>> : b \in SeqsUpTo(items, n)}

\* the children between the name and the body
Generics(outs) ==
    {<<>>}
    \cup {<<Leaf("type_params", "<T>", o)>> : o \in outs}
    \cup {<<Leaf("trait_bounds", "where T: A", o)>> : o \in outs}
    \cup {<<Leaf("type_params", "<T>", o), Leaf("trait_bounds", "where T: A", Clean)>> : o \in outs}
    \cup {<<Leaf("trait_bounds", "where T: A", Clean), Leaf("type_params", "<T>", o)>> : o \in outs}

VisibilityNodes == {<<>>, <<Leaf("visibility", "pub", Clean)>>}

Trait(vis, text, o_name, generics, body) ==
    Place(Node("trait", "", Clean,
               vis \o <<Leaf("trait_keyword", "trait", Clean), Leaf("ident", text, o_name)>>
                   \o generics \o body),
          <<>>)

\* declarations that vary the head: visibility, name, generics
HeadTraits ==
    {Trait(v, t, o, g, b) : v \in VisibilityNodes, t \in Texts, o \in EdgeOutcomes,
                            g \in Generics(EdgeOutcomes), b \in Bodies(HeadItems, MaxHeadItems)}

\* declarations that vary the body
BodyTraits ==
    {Trait(<<>>, "Foo", Clean, <<>>, <<Node("trait_body", "", Clean, b)>>) :
         b \in NoisyBodies(MaxItems, MaxNoisy)}

\* declarations of one signature, any signature
SignatureTraits ==
    {Trait(<<>>, t, Clean, <<>>, <<Node("trait_body", "", Clean, <<s>>)>>) :
         t \in Texts, s \in Signatures(EdgeOutcomes)}

\* signatures lowered on their own
LoneSignatures == {Place(s, <<>>) : s \in Signatures(Outcomes)}

(***************************************************************************)
(* TraitDeclaration::parse_from_pair, one action per step                  *)
(***************************************************************************)
Init ==
    /\ pair \in HeadTraits \cup BodyTraits \cup SignatureTraits
    /\ config \in Configs
    /\ pc = "start"
    /\ trait_parts = pair.kids
    /\ visibility = "Private"
    /\ name = None
    /\ warnings = <<>>
    /\ errors = <<>>
    /\ type_params_pair = None
    /\ where_clause_pair = None
    /\ methods = <<>>
    /\ interface = <<>>
    /\ slot = 0
    /\ body_iter = <<>>
    /\ ret = None

HasVisibility == pair.kids[1].rule = "visibility"

\* the children left after the visibility and the trait keyword
AfterKeyword == IF HasVisibility THEN Tail(Tail(pair.kids)) ELSE Tail(pair.kids)

name_pair == Head(AfterKeyword)

NameChecked == check(Ident_parse_from_pair(name_pair, config), <<>>, <<>>)

\* AbortOnName with the naming convention checked before the name is lowered
AbortOnName_Warns ==
    /\ pc = "start"
    /\ NameChecked.value = None
    /\ warnings' = assert_or_warn(is_upper_camel_case(name_pair.text), NameChecked.warnings,
                                  Span(name_pair.span, PathOf(config)),
                                  [kind |-> "NonClassCaseTraitName", name |-> name_pair.text])
    /\ errors' = NameChecked.errors
    /\ visibility' = IF HasVisibility THEN Visibility_parse_from_pair(pair.kids[1]) ELSE "Private"
    /\ trait_parts' = Tail(AfterKeyword)
    /\ ret' = Some(err(warnings', NameChecked.errors))
    /\ pc' = "done"
    /\ UNCHANGED <<pair, config, name, type_params_pair, where_clause_pair, methods,
                   interface, slot, body_iter>>

\* the name does not lower: return err(warnings, errors)
AbortOnName ==
    /\ pc = "start"
    /\ NameChecked.value = None
    /\ warnings' = NameChecked.warnings
    /\ errors' = NameChecked.errors
    /\ visibility' = IF HasVisibility THEN Visibility_parse_from_pair(pair.kids[1]) ELSE "Private"
    /\ trait_parts' = Tail(AfterKeyword)
    /\ ret' = Some(err(NameChecked.warnings, NameChecked.errors))
    /\ pc' = "done"
    /\ UNCHANGED <<pair, config, name, type_params_pair, where_clause_pair, methods,
                   interface, slot, body_iter>>

\* LowerName reporting the naming-convention mismatch as an error as well
LowerName_Escalates ==
    /\ pc = "start"
    /\ NameChecked.value # None
    /\ visibility' = IF HasVisibility THEN Visibility_parse_from_pair(pair.kids[1]) ELSE "Private"
    /\ trait_parts' = Tail(AfterKeyword)
    /\ name' = NameChecked.value
    /\ warnings' = assert_or_warn(is_upper_camel_case(name_pair.text), NameChecked.warnings,
                                  NameChecked.value[1].span,
                                  [kind |-> "NonClassCaseTraitName",
                                   name |-> NameChecked.value[1]])
    /\ errors' = assert_or_warn(is_upper_camel_case(name_pair.text), NameChecked.errors,
                                NameChecked.value[1].span,
                                [kind |-> "NonClassCaseTraitName",
                                 name |-> NameChecked.value[1]])
    /\ type_params_pair' = None
    /\ where_clause_pair' = None
    /\ methods' = <<>>
    /\ interface' = <<>>
    /\ slot' = 0
    /\ pc' = "lookahead"
    /\ UNCHANGED <<pair, config, body_iter, ret>>

\* visibility, trait keyword, name and its naming-convention check (a node's
\* text stands for name_pair.as_str().trim())
LowerName ==
    /\ pc = "start"
    /\ NameChecked.value # None
    /\ visibility' = IF HasVisibility THEN Visibility_parse_from_pair(pair.kids[1]) ELSE "Private"
    /\ trait_parts' = Tail(AfterKeyword)
    /\ name' = NameChecked.value
    /\ warnings' = assert_or_warn(is_upper_camel_case(name_pair.text), NameChecked.warnings,
                                  NameChecked.value[1].span,
                                  [kind |-> "NonClassCaseTraitName",
                                   name |-> NameChecked.value[1]])
    /\ errors' = NameChecked.errors
    /\ type_params_pair' = None
    /\ where_clause_pair' = None
    /\ methods' = <<>>
    /\ interface' = <<>>
    /\ slot' = 0
    /\ pc' = "lookahead"
    /\ UNCHANGED <<pair, config, body_iter, ret>>

Peek == IF trait_parts = <<>> THEN "" ELSE Head(trait_parts).rule

\* Lookahead taking the type parameters at the first slot only and the
\* where clause at the second slot only
Lookahead_FixedOrder ==
    /\ pc = "lookahead"
    /\ slot < LookaheadSlots
    /\ slot' = slot + 1
    /\ CASE Peek = "trait_bounds" /\ slot = 1 ->
              /\ where_clause_pair' = Some(Head(trait_parts))
              /\ trait_parts' = Tail(trait_parts)
              /\ UNCHANGED type_params_pair
         [] Peek = "type_params" /\ slot = 0 ->
              /\ type_params_pair' = Some(Head(trait_parts))
              /\ trait_parts' = Tail(trait_parts)
              /\ UNCHANGED where_clause_pair
         [] OTHER ->
              UNCHANGED <<trait_parts, type_params_pair, where_clause_pair>>
    /\ UNCHANGED <<pair, config, pc, visibility, name, warnings, errors, methods, interface,
                   body_iter, ret>>

\* one iteration of for _ in 0..2
Lookahead ==
    /\ pc = "lookahead"
    /\ slot < LookaheadSlots
    /\ slot' = slot + 1
    /\ CASE Peek = "trait_bounds" ->
              /\ where_clause_pair' = Some(Head(trait_parts))
              /\ trait_parts' = Tail(trait_parts)
              /\ UNCHANGED type_params_pair
         [] Peek = "type_params" ->
              /\ type_params_pair' = Some(Head(trait_parts))
              /\ trait_parts' = Tail(trait_parts)
              /\ UNCHANGED where_clause_pair
         [] OTHER ->
              UNCHANGED <<trait_parts, type_params_pair, where_clause_pair>>
    /\ UNCHANGED <<pair, config, pc, visibility, name, warnings, errors, methods, interface,
                   body_iter, ret>>

\* if let Some(methods_and_interface) = trait_parts.next()
TakeBody ==
    /\ pc = "lookahead"
    /\ slot = LookaheadSlots
    /\ IF trait_parts # <<>>
       THEN /\ body_iter' = Head(trait_parts).kids
            /\ trait_parts' = Tail(trait_parts)
       ELSE /\ body_iter' = <<>>
            /\ UNCHANGED trait_parts
    /\ pc' = "items"
    /\ UNCHANGED <<pair, config, visibility, name, warnings, errors, type_params_pair,
                   where_clause_pair, methods, interface, slot, ret>>

\* LowerSignature merging the diagnostics of a signature only when it lowers
LowerSignature_MergeOnSuccess ==
    /\ pc = "items"
    /\ body_iter # <<>>
    /\ Head(body_iter).rule = "fn_signature"
    /\ LET c == check(TraitFn_parse_from_pair(Head(body_iter), config), warnings, errors)
       IN IF c.value = None
          THEN UNCHANGED <<warnings, errors, interface>>
          ELSE /\ warnings' = c.warnings
               /\ errors' = c.errors
               /\ interface' = Append(interface, c.value[1])
    /\ body_iter' = Tail(body_iter)
    /\ UNCHANGED <<pair, config, pc, trait_parts, visibility, name, type_params_pair,
                   where_clause_pair, methods, slot, ret>>

\* LowerSignature putting each signature in front of the earlier ones
LowerSignature_PushFront ==
    /\ pc = "items"
    /\ body_iter # <<>>
    /\ Head(body_iter).rule = "fn_signature"
    /\ LET c == check(TraitFn_parse_from_pair(Head(body_iter), config), warnings, errors)
       IN /\ warnings' = c.warnings
          /\ errors' = c.errors
          /\ interface' = IF c.value = None THEN interface ELSE <<c.value[1]>> \o interface
    /\ body_iter' = Tail(body_iter)
    /\ UNCHANGED <<pair, config, pc, trait_parts, visibility, name, type_params_pair,
                   where_clause_pair, methods, slot, ret>>

\* Rule::fn_signature => interface.push(check!(TraitFn::parse_from_pair(..), continue, ..))
LowerSignature ==
    /\ pc = "items"
    /\ body_iter # <<>>
    /\ Head(body_iter).rule = "fn_signature"
    /\ LET c == check(TraitFn_parse_from_pair(Head(body_iter), config), warnings, errors)
       IN /\ warnings' = c.warnings
          /\ errors' = c.errors
          /\ interface' = IF c.value = None THEN interface ELSE Append(interface, c.value[1])
    /\ body_iter' = Tail(body_iter)
    /\ UNCHANGED <<pair, config, pc, trait_parts, visibility, name, type_params_pair,
                   where_clause_pair, methods, slot, ret>>

\* LowerMethod recovering from a method that does not lower with a stand-in
\* declaration instead of skipping it
LowerMethod_PushesRecovery ==
    /\ pc = "items"
    /\ body_iter # <<>>
    /\ Head(body_iter).rule = "fn_decl"
    /\ LET c == check(FunctionDeclaration_parse_from_pair(Head(body_iter), config),
                      warnings, errors)
       IN /\ warnings' = c.warnings
          /\ errors' = c.errors
          /\ methods' = IF c.value = None
                        THEN Append(methods, [fn_decl_at |-> Head(body_iter).span])
                        ELSE Append(methods, c.value[1])
    /\ body_iter' = Tail(body_iter)
    /\ UNCHANGED <<pair, config, pc, trait_parts, visibility, name, type_params_pair,
                   where_clause_pair, interface, slot, ret>>

\* Rule::fn_decl => methods.push(check!(FunctionDeclaration::parse_from_pair(..), continue, ..))
LowerMethod ==
    /\ pc = "items"
    /\ body_iter # <<>>
    /\ Head(body_iter).rule = "fn_decl"
    /\ LET c == check(FunctionDeclaration_parse_from_pair(Head(body_iter), config),
                      warnings, errors)
       IN /\ warnings' = c.warnings
          /\ errors' = c.errors
          /\ methods' = IF c.value = None THEN methods ELSE Append(methods, c.value[1])
    /\ body_iter' = Tail(body_iter)
    /\ UNCHANGED <<pair, config, pc, trait_parts, visibility, name, type_params_pair,
                   where_clause_pair, interface, slot, ret>>

\* Finish putting the type-parameter diagnostics in front of the earlier ones
Finish_GenericsFirst ==
    /\ pc = "items"
    /\ body_iter = <<>>
    /\ LET g == TypeParameter_parse_from_type_params_and_where_clause(
                    type_params_pair, where_clause_pair, config)
           u == unwrap_or_else(g, <<>>, <<>>, <<>>)
       IN /\ warnings' = u.warnings \o warnings
          /\ errors' = u.errors \o errors
          /\ ret' = Some(ok([type_parameters |-> u.value, name |-> name[1],
                             interface_surface |-> interface, methods |-> methods,
                             visibility |-> visibility],
                            u.warnings \o warnings, u.errors \o errors))
    /\ pc' = "done"
    /\ UNCHANGED <<pair, config, trait_parts, visibility, name, type_params_pair,
                   where_clause_pair, methods, interface, slot, body_iter>>

\* Finish giving up on type parameters that do not lower
Finish_FailOnGenerics ==
    /\ pc = "items"
    /\ body_iter = <<>>
    /\ LET g == TypeParameter_parse_from_type_params_and_where_clause(
                    type_params_pair, where_clause_pair, config)
           u == unwrap_or_else(g, warnings, errors, <<>>)
       IN /\ warnings' = u.warnings
          /\ errors' = u.errors
          /\ ret' = IF g.value = None THEN Some(err(u.warnings, u.errors))
                    ELSE Some(ok([type_parameters |-> u.value, name |-> name[1],
                                  interface_surface |-> interface, methods |-> methods,
                                  visibility |-> visibility],
                                 u.warnings, u.errors))
    /\ pc' = "done"
    /\ UNCHANGED <<pair, config, trait_parts, visibility, name, type_params_pair,
                   where_clause_pair, methods, interface, slot, body_iter>>

\* the type parameters, then ok(TraitDeclaration {..}, warnings, errors)
Finish ==
    /\ pc = "items"
    /\ body_iter = <<>>
    /\ LET u == unwrap_or_else(
                    TypeParameter_parse_from_type_params_and_where_clause(
                        type_params_pair, where_clause_pair, config),
                    warnings, errors, <<>>)
       IN /\ warnings' = u.warnings
          /\ errors' = u.errors
          /\ ret' = Some(ok([type_parameters |-> u.value, name |-> name[1],
                             interface_surface |-> interface, methods |-> methods,
                             visibility |-> visibility],
                            u.warnings, u.errors))
    /\ pc' = "done"
    /\ UNCHANGED <<pair, config, trait_parts, visibility, name, type_params_pair,
                   where_clause_pair, methods, interface, slot, body_iter>>

Next == AbortOnName \/ LowerName \/ Lookahead \/ TakeBody \/ LowerSignature \/ LowerMethod
        \/ Finish

Spec == Init /\ [][Next]_vars

(***************************************************************************)
(* TraitFn::parse_from_pair on its own                                     *)
(***************************************************************************)
InitFn ==
    /\ pair \in LoneSignatures
    /\ config \in Configs
    /\ pc = "signature"
    /\ trait_parts = <<>>
    /\ visibility = "Private"
    /\ name = None
    /\ warnings = <<>>
    /\ errors = <<>>
    /\ type_params_pair = None
    /\ where_clause_pair = None
    /\ methods = <<>>
    /\ interface = <<>>
    /\ slot = 0
    /\ body_iter = <<>>
    /\ ret = None

ParseTraitFn ==
    /\ pc = "signature"
    /\ ret' = Some(TraitFn_parse_from_pair(pair, config))
    /\ pc' = "returned"
    /\ UNCHANGED <<pair, config, trait_parts, visibility, name, warnings, errors,
                   type_params_pair, where_clause_pair, methods, interface, slot, body_iter>>

NextFn == ParseTraitFn

SpecFn == InitFn /\ [][NextFn]_vars

(***************************************************************************)
(* The input of a run, read off the declaration node itself.               *)
(***************************************************************************)
Returned == ret[1]

Done == pc = "done"

NameResult == Ident_parse_from_pair(name_pair, config)

NameLowers == NameResult.value # None

\* the body items of the declaration, in source order
Items ==
    IF \E i \in 1..Len(pair.kids) : pair.kids[i].rule = "trait_body"
    THEN (CHOOSE n \in {pair.kids[i] : i \in 1..Len(pair.kids)} : n.rule = "trait_body").kids
    ELSE <<>>

\* the node of the declaration with this tag, if any
Tagged(rule) ==
    IF \E i \in 1..Len(pair.kids) : pair.kids[i].rule = rule
    THEN Some(CHOOSE n \in {pair.kids[i] : i \in 1..Len(pair.kids)} : n.rule = rule)
    ELSE None

GenericsResult ==
    TypeParameter_parse_from_type_params_and_where_clause(
        Tagged("type_params"), Tagged("trait_bounds"), config)

ItemResult(item) ==
    IF item.rule = "fn_signature" THEN TraitFn_parse_from_pair(item, config)
    ELSE FunctionDeclaration_parse_from_pair(item, config)

Fails(item) == ItemResult(item).value = None

Count(x, seq) == Cardinality({i \in 1..Len(seq) : seq[i] = x})

RECURSIVE Flatten(_)
Flatten(seqs) == IF seqs = <<>> THEN <<>> ELSE Head(seqs) \o Flatten(Tail(seqs))

\* the items lowered so far
Lowered ==
    CASE pc = "items" -> SubSeq(Items, 1, Len(Items) - Len(body_iter))
      [] pc = "done" /\ NameLowers -> Items
      [] OTHER -> <<>>

(***************************************************************************)
(* Properties                                                              *)
(***************************************************************************)
Failing == {i \in 1..Len(Items) : Fails(Items[i])}

\* C1: when the trait name lowers and exactly one of the N body items fails
\* to lower, interface_surface and methods together hold N-1 items and the
\* returned errors hold at least one error.
C1_SkipOnFailure ==
    (Done /\ NameLowers /\ Cardinality(Failing) = 1) =>
        /\ Returned.value # None
        /\ Len(Returned.value[1].interface_surface) + Len(Returned.value[1].methods)
               = Len(Items) - 1
        /\ Len(Returned.errors) >= 1

C1_Witness ==
    /\ Done /\ NameLowers /\ Cardinality(Failing) = 1 /\ Len(Items) >= 2
    /\ Len(Returned.value[1].interface_surface) + Len(Returned.value[1].methods) >= 1

\* the diagnostics of a result
Diags(r) == [warnings |-> r.warnings, errors |-> r.errors]

\* the diagnostics of each external lowerer that a run on this declaration
\* invokes
InvokedInSignature(sig) ==
    {Diags(Ident_parse_from_pair(sig.kids[2], config))}
    \cup (IF Ident_parse_from_pair(sig.kids[2], config).value = None THEN {}
          ELSE {Diags(FunctionParameter_list_from_pairs(sig.kids[3], config))}
               \cup (IF Len(sig.kids) >= 5
                     THEN {Diags(TypeInfo_parse_from_pair(sig.kids[5], config))} ELSE {}))

Invoked ==
    {Diags(NameResult)}
    \cup (IF ~NameLowers THEN {}
          ELSE {Diags(GenericsResult)}
               \cup UNION {IF Items[i].rule = "fn_signature"
                           THEN InvokedInSignature(Items[i])
                           ELSE {Diags(FunctionDeclaration_parse_from_pair(Items[i], config))}
                           : i \in 1..Len(Items)})

\* C2: whenever the lowering returns, with or without a value, every warning
\* and every error of every external lowerer it invoked (those that returned
\* no value included) is in the returned warnings / errors exactly once.
C2_NothingDropped ==
    Done =>
        \A r \in Invoked :
            /\ \A k \in 1..Len(r.warnings) : Count(r.warnings[k], Returned.warnings) = 1
            /\ \A k \in 1..Len(r.errors) : Count(r.errors[k], Returned.errors) = 1

C2_Witness ==
    /\ Done /\ NameLowers
    /\ \E i \in 1..Len(Items) :
          /\ Items[i].rule = "fn_signature"
          /\ Ident_parse_from_pair(Items[i].kids[2], config).value # None
          /\ Len(Items[i].kids) >= 5
          /\ TypeInfo_parse_from_pair(Items[i].kids[5], config).value = None
          /\ Len(TypeInfo_parse_from_pair(Items[i].kids[5], config).warnings) >= 1
    /\ \E i \in 1..Len(Items) : Fails(Items[i]) /\ Len(ItemResult(Items[i]).warnings) >= 1

NameWarning ==
    IF is_upper_camel_case(name_pair.text) THEN <<>>
    ELSE <<[warning_content |-> [kind |-> "NonClassCaseTraitName", name |-> NameResult.value[1]],
            span |-> NameResult.value[1].span]>>

\* the diagnostics due after the steps taken so far, in order
DueWarnings ==
    IF pc = "start" THEN <<>>
    ELSE IF ~NameLowers THEN NameResult.warnings
    ELSE NameResult.warnings \o NameWarning
         \o Flatten([i \in 1..Len(Lowered) |-> ItemResult(Lowered[i]).warnings])
         \o (IF Done THEN GenericsResult.warnings ELSE <<>>)

DueErrors ==
    IF pc = "start" THEN <<>>
    ELSE IF ~NameLowers THEN NameResult.errors
    ELSE NameResult.errors
         \o Flatten([i \in 1..Len(Lowered) |-> ItemResult(Lowered[i]).errors])
         \o (IF Done THEN GenericsResult.errors ELSE <<>>)

\* C3: after every step the accumulated warnings (errors) are the earlier
\* ones followed by the merged result's, so that the returned sequences are
\* the name's diagnostics, the naming-convention warning, each body item's
\* diagnostics in source order, and last the type-parameter lowerer's.
C3_DiagnosticOrder ==
    /\ warnings = DueWarnings
    /\ errors = DueErrors
    /\ Done => Returned.warnings = DueWarnings /\ Returned.errors = DueErrors

C3_Witness ==
    /\ Done /\ NameLowers
    /\ Len(NameResult.warnings) >= 2
    /\ NameWarning # <<>>
    /\ Len(Items) >= 1 /\ Len(ItemResult(Items[1]).errors) >= 1
    /\ Len(GenericsResult.warnings) >= 2 /\ Len(GenericsResult.errors) >= 2

\* C4: the lowering returns a value exactly when the name lowers; failing
\* body items, a failing type-parameter lowering and a naming-convention
\* mismatch leave the value present.
C4_ValueIffName ==
    Done => (Returned.value # None <=> NameLowers)

C4_Witness ==
    /\ Done /\ Returned.value # None
    /\ \E i \in 1..Len(Items) : Fails(Items[i])
    /\ GenericsResult.value = None
    /\ ~is_upper_camel_case(name_pair.text)
    /\ Len(Returned.errors) >= 2

\* C10: when the name does not lower the lowering returns no value and
\* exactly the name lowering's diagnostics: no naming-convention warning, no
\* body item and no type-parameter lowering contributes.
C10_AbortOnName ==
    (Done /\ ~NameLowers) =>
        /\ Returned.value = None
        /\ Returned.warnings = NameResult.warnings
        /\ Returned.errors = NameResult.errors
        /\ interface = <<>> /\ methods = <<>>
        /\ type_params_pair = None /\ where_clause_pair = None

C10_Witness ==
    /\ Done /\ ~NameLowers
    /\ ~is_upper_camel_case(name_pair.text)
    /\ \E i \in 1..Len(Items) : Len(ItemResult(Items[i]).errors) >= 1
    /\ Len(GenericsResult.errors) >= 1
    /\ Len(NameResult.warnings) >= 1

\* the range of the body item a list element was lowered from
Origin(v) ==
    IF "name" \in DOMAIN v
    THEN SubSeq(v.name.span.span, 1, Len(v.name.span.span) - 1)
    ELSE v.fn_decl_at

\* the places of body item i in a list
Places(list, i) == {j \in 1..Len(list) : Origin(list[j]) = Items[i].span}

ItemOf(v) == CHOOSE i \in 1..Len(Items) : Items[i].span = Origin(v)

InSourceOrder(list) ==
    \A j, k \in 1..Len(list) : j < k => ItemOf(list[j]) < ItemOf(list[k])

\* C5 as stated: every body child is in exactly one of interface_surface and
\* methods, by its tag, in source order.
C5_EveryChildRouted ==
    (Done /\ NameLowers) =>
        LET S == Returned.value[1].interface_surface
            M == Returned.value[1].methods
        IN /\ \A i \in 1..Len(Items) :
                 /\ Cardinality(Places(S, i)) + Cardinality(Places(M, i)) = 1
                 /\ Items[i].rule = "fn_signature" => Places(M, i) = {}
                 /\ Items[i].rule = "fn_decl" => Places(S, i) = {}
           /\ InSourceOrder(S) /\ InSourceOrder(M)

\* C5: every body child that lowers is in exactly one of interface_surface
\* and methods (a fn_signature in the former, a fn_decl in the latter), a
\* child that fails to lower is in neither, and each list is in source order.
C5_Partition ==
    (Done /\ NameLowers) =>
        LET S == Returned.value[1].interface_surface
            M == Returned.value[1].methods
        IN /\ \A i \in 1..Len(Items) :
                 /\ Cardinality(Places(S, i)) + Cardinality(Places(M, i))
                        = IF Fails(Items[i]) THEN 0 ELSE 1
                 /\ Items[i].rule = "fn_signature" => Places(M, i) = {}
                 /\ Items[i].rule = "fn_decl" => Places(S, i) = {}
           /\ \A j \in 1..Len(S) : \E i \in 1..Len(Items) : j \in Places(S, i)
           /\ \A j \in 1..Len(M) : \E i \in 1..Len(Items) : j \in Places(M, i)
           /\ InSourceOrder(S) /\ InSourceOrder(M)

C5_Witness ==
    /\ Done /\ NameLowers
    /\ Len(Returned.value[1].interface_surface) >= 2 \/ Len(Returned.value[1].methods) >= 2

\* how many warnings of a naming convention a sequence holds
StyleCount(ws, kind) ==
    Cardinality({k \in 1..Len(ws) : ws[k].warning_content.kind = kind})

OtherText(t) == CHOOSE u \in Texts : u # t

\* the same signature under the other name
Renamed(sig) == [sig EXCEPT !.kids[2].text = OtherText(@)]

\* C6: a name that lowers but breaks its naming convention still gives a value
\* carrying the identifier, with exactly one warning appended for the
\* mismatch and the errors as they are for a conforming name; a conforming
\* name appends no such warning.  (Trait name: upper camel case; method
\* name: snake case.)
C6_CaseStyleIndependence ==
    /\ (pc # "start" /\ NameLowers) =>
          /\ name = NameResult.value
          /\ StyleCount(warnings, "NonClassCaseTraitName")
                 = IF is_upper_camel_case(name_pair.text) THEN 0 ELSE 1
          /\ (pc = "lookahead" /\ slot = 0) =>
                 /\ errors = NameResult.errors
                 /\ warnings = NameResult.warnings \o NameWarning
    /\ (Done /\ NameLowers) =>
          /\ Returned.value # None
          /\ Returned.value[1].name = NameResult.value[1]
          /\ StyleCount(Returned.warnings, "NonClassCaseTraitName")
                 = IF is_upper_camel_case(name_pair.text) THEN 0 ELSE 1
    /\ \A i \in 1..Len(Lowered) :
          LET sig == Lowered[i]
              r == TraitFn_parse_from_pair(sig, config)
              id == Ident_parse_from_pair(sig.kids[2], config)
          IN (sig.rule = "fn_signature" /\ id.value # None) =>
                /\ r.value # None
                /\ r.value[1].name = id.value[1]
                /\ StyleCount(r.warnings, "NonSnakeCaseFunctionName")
                       = IF is_snake_case(sig.kids[2].text) THEN 0 ELSE 1
                /\ r.errors = TraitFn_parse_from_pair(Renamed(sig), config).errors
                /\ Count(r.value[1], interface) = 1

C6_Witness ==
    /\ Done /\ NameLowers
    /\ ~is_upper_camel_case(name_pair.text)
    /\ Len(Returned.errors) >= 1
    /\ \E i \in 1..Len(Items) :
          /\ Items[i].rule = "fn_signature" /\ ~Fails(Items[i])
          /\ ~is_snake_case(Items[i].kids[2].text)

\* C7: a signature without a return-type marker has the empty tuple as its
\* return type, attributed to the range of the whole signature; with a marker
\* the return type is attributed to the range of the type node after the
\* marker, also when that node does not lower, and never to the whole
\* signature.
C7_ReturnTypeAttribution ==
    (pc = "returned" /\ Returned.value # None) =>
        LET fn == Returned.value[1]
        IN IF Len(pair.kids) = 3
           THEN /\ fn.return_type = TypeInfo_Tuple_empty
                /\ fn.return_type_span = Span(pair.span, PathOf(config))
           ELSE /\ fn.return_type_span = Span(pair.kids[5].span, PathOf(config))
                /\ fn.return_type_span # Span(pair.span, PathOf(config))

C7_Witness ==
    /\ pc = "returned" /\ Returned.value # None
    /\ Len(pair.kids) = 5
    /\ ~pair.kids[5].res.ok
    /\ config # None

\* C8: a signature lowers to no value only when its name does not lower.
\* Otherwise a TraitFn is returned, with an empty parameter list for a
\* parameter list that does not lower and the error-recovery type for a
\* return type that does not lower, the errors of either kept in the result;
\* and the declaration pushes it into interface_surface, errors or not.
C8_SignatureRecovery ==
    \A i \in 1..Len(Lowered) :
        LET sig == Lowered[i]
            r == TraitFn_parse_from_pair(sig, config)
            id == Ident_parse_from_pair(sig.kids[2], config)
            ps == FunctionParameter_list_from_pairs(sig.kids[3], config)
            ty == TypeInfo_parse_from_pair(sig.kids[5], config)
        IN sig.rule = "fn_signature" =>
              /\ r.value = None <=> id.value = None
              /\ id.value # None =>
                    /\ r.value[1].parameters
                           = IF ps.value = None THEN <<>> ELSE ps.value[1]
                    /\ \A k \in 1..Len(ps.errors) : Count(ps.errors[k], r.errors) = 1
                    /\ Len(sig.kids) = 5 =>
                          /\ r.value[1].return_type
                                 = IF ty.value = None THEN TypeInfo_ErrorRecovery
                                   ELSE ty.value[1]
                          /\ \A k \in 1..Len(ty.errors) : Count(ty.errors[k], r.errors) = 1
                    /\ Count(r.value[1], interface) = 1

C8_Witness ==
    /\ Done /\ NameLowers
    /\ \E j \in 1..Len(interface) :
          /\ interface[j].parameters = <<>>
          /\ Len(ItemResult(Items[ItemOf(interface[j])]).errors) >= 1
    /\ \E j \in 1..Len(interface) : interface[j].return_type = TypeInfo_ErrorRecovery

\* the children after the name, and how many of them lead as generics
AfterName == Tail(AfterKeyword)

IsGeneric(node) == node.rule \in {"type_params", "trait_bounds"}

LeadingGenerics ==
    Cardinality({n \in 1..Len(AfterName) : \A m \in 1..n : IsGeneric(AfterName[m])})

Min(a, b) == IF a < b THEN a ELSE b

\* C9: at each of the two slots after the name the next child is consumed
\* only when it is a type_params or a trait_bounds node and is kept under its
\* own tag, whichever comes first; with neither, one or both of them present
\* the captured nodes are exactly those present, no other child is consumed,
\* and the body is the first child left (no child left: both lists empty).
C9_Lookahead ==
    /\ pc = "lookahead" =>
          /\ trait_parts = SubSeq(AfterName, Min(slot, LeadingGenerics) + 1, Len(AfterName))
          /\ \A n \in 1..Len(AfterName) :
                ~IsGeneric(AfterName[n]) => \E m \in 1..Len(trait_parts) :
                                                trait_parts[m] = AfterName[n]
    /\ ((pc = "lookahead" /\ slot = LookaheadSlots) \/ pc = "items" \/ (Done /\ NameLowers)) =>
          /\ type_params_pair = Tagged("type_params")
          /\ where_clause_pair = Tagged("trait_bounds")
    /\ pc = "items" =>
          /\ trait_parts = <<>>
          /\ body_iter = SubSeq(Items, Len(Items) - Len(body_iter) + 1, Len(Items))
          /\ (interface = <<>> /\ methods = <<>> /\ errors = NameResult.errors)
                 => body_iter = Items
    /\ (Done /\ NameLowers /\ Tagged("trait_body") = None) =>
          /\ Returned.value[1].interface_surface = <<>>
          /\ Returned.value[1].methods = <<>>

C9_Witness ==
    /\ pc = "items"
    /\ Len(AfterName) >= 3
    /\ AfterName[1].rule = "trait_bounds"
    /\ type_params_pair # None /\ where_clause_pair # None
    /\ Items # <<>> /\ body_iter = Items

====
